---- MODULE Spec2Model ----
(***************************************************************************)
(* Status polling / caching engine of GCMP (BaseStatusBarItem with the     *)
(* Moonshot entity's hooks), one engine instance in one extension host.    *)
(*                                                                         *)
(* JavaScript runs one job at a time: every action below is one run of the *)
(* event loop from a trigger (or from the resumption of an await) to the   *)
(* next await.  The coroutines suspended at an await are the bag `tasks`.  *)
(* Times are milliseconds, as returned by Date.now().                      *)
(***************************************************************************)
EXTENDS Integers, FiniteSets, Sequences, Bags, TLC

(* ------------------------------ bounds -------------------------------- *)
\* Date.now() when the model starts (any value far above 30 s)
Epoch == 1000000
\* number of clock steps explored
MaxAdvance == 2
\* coroutines suspended at the same time
MaxTasks == 2
\* setTimeout callbacks pending at the same time
MaxTimers == 2
\* initialize() runs that get as far as registering with the leader service
MaxInit == 2
\* how far the clock that stamped a snapshot of another process may be ahead
ClockSkew == 2000

\* the steps the clock takes between two jobs of the event loop
Deltas == {5000, 30000}
\* a clock step longer than the refresh interval of the leader's periodic task
LongDelta == 300000
\* a clock step just short of the minimum interval between delayed updates
NearInterval == 29000
\* how long ago another window may have persisted the snapshot found in the store
SnapshotAges == {45000, 90000}
\* available_balance values a backend may report, in 1/1000 yuan
Balances == {42504, 1250}

(* ------------------------- program constants -------------------------- *)
MIN_DELAYED_UPDATE_INTERVAL == 30000
FRESH_MS == 5000
CACHE_ADOPT_MS == 30000
STALE_LOG_MS == 60000
LEASE_MS == 30000
DEFAULT_DELAY_MS == 2000
REFRESH_INTERVAL == 290000

VARIABLES
    now,                    \* Date.now()
    advances,               \* clock steps taken so far
    initialized,            \* this.initialized
    context,                \* this.context is set
    item,                   \* this.statusBarItem and what it shows
    lastStatusData,         \* this.lastStatusData
    store,                  \* globalState['moonshot.statusData']
    isLoading,              \* this.isLoading
    lastDelayedUpdateTime,  \* this.lastDelayedUpdateTime
    updateDebouncer,        \* this.updateDebouncer: the handle and the timer it names
    timeouts,               \* bag of the due times of the pending setTimeout callbacks
    cacheUpdateTimer,       \* this.cacheUpdateTimer is set
    intervals,              \* number of live setInterval timers
    command,                \* the refresh command and the cleanup hook are registered
    leaderTasks,            \* periodic tasks registered with LeaderElectionService
    tasks,                  \* bag of suspended coroutines
    disposed,               \* dispose() has run on this engine (history)
    restored,               \* the snapshot the store held when the process restarted (history)
    lease,                  \* the LeaseRecord in the shared store
    lpc,                    \* where each process's election tick stands
    leader,                 \* whether each process considers itself the leader
    late,                   \* a claim overwrote the lease of a process that considers
                            \* itself the leader (history)
    heldLease,              \* the lease the leader held when it stopped (history)
    balanceQueryManager,    \* the static members of BalanceQueryManager
    statusBarManager,       \* the static members of StatusBarManager
    ev                      \* the last job that ran (history)

vars == <<now, advances, initialized, context, item, lastStatusData, store, isLoading,
          lastDelayedUpdateTime, updateDebouncer, timeouts, cacheUpdateTimer, intervals,
          command, leaderTasks, tasks, disposed, restored, lease, lpc, leader, late, heldLease, balanceQueryManager, statusBarManager, ev>>

(* ------------------------------ values -------------------------------- *)
\* the cooperating processes (their ownerIds)
Procs == {"p1", "p2"}

\* LeaseRecord | absent
NoLease == [has |-> FALSE, ownerId |-> "", acquiredAt |-> 0, expiresAt |-> 0]

Lease(p, t) == [has |-> TRUE, ownerId |-> p, acquiredAt |-> t, expiresAt |-> t + LEASE_MS]

\* results of a read or a write of the shared store
StoreOutcomes == {"ok", "fail"}

\* CachedStatusData<T> | null
NoStatus == [has |-> FALSE, data |-> 0, timestamp |-> 0]

Cached(d, t) == [has |-> TRUE, data |-> d, timestamp |-> t]

\* vscode.StatusBarItem | undefined
NoItem == [exists |-> FALSE, visible |-> FALSE, text |-> [k |-> "none", cents |-> 0],
           tooltip |-> [k |-> "none", cents |-> 0, msg |-> ""], warn |-> FALSE]

\* Number.prototype.toFixed(2) of a balance given in 1/1000 yuan: the amount in cents
ToFixed2(b) == (b + 5) \div 10

\* MoonshotStatusBar.getDisplayText: `${icon} ¥${balance.toFixed(2)}`
getDisplayText(d) == [k |-> "balance", cents |-> ToFixed2(d)]

\* MoonshotStatusBar.generateTooltip
generateTooltip(d) == [k |-> "balance", cents |-> ToFixed2(d), msg |-> ""]

\* MoonshotStatusBar.shouldHighlightWarning
shouldHighlightWarning(d) == FALSE

\* `$(loading~spin) ${previousText.replace(icon, '').trim()}`
LoadingText(d) == [k |-> "loading", cents |-> getDisplayText(d).cents]

LoadingTooltip == [k |-> "loading", cents |-> 0, msg |-> ""]

\* `${icon} ERR`
ErrText == [k |-> "err", cents |-> 0]

\* `获取失败: ${message || '未知错误'}`
ErrTooltip(m) == [k |-> "err", cents |-> 0, msg |-> IF m = "" THEN "unknown" ELSE m]

\* the item initialize() creates: text = icon, not shown
FreshItem == [exists |-> TRUE, visible |-> FALSE, text |-> [k |-> "icon", cents |-> 0],
              tooltip |-> [k |-> "none", cents |-> 0, msg |-> ""], warn |-> FALSE]

\* results of `await this.shouldShowStatusBar()`
ShowOutcomes == {"yes", "no", "throw"}

\* results of `await this.performApiQuery()`
\* (success with data; success without data; a failure result with or without an
\* error text; a rejection with an Error)
QueryOutcomes ==
    [kind : {"ok"}, data : Balances, msg : {""}]
        \cup {[kind |-> "nodata", data |-> 0, msg |-> ""],
              [kind |-> "fail", data |-> 0, msg |-> ""],
              [kind |-> "fail", data |-> 0, msg |-> "quota"],
              [kind |-> "throw", data |-> 0, msg |-> "network"]}

\* the provider ids with a default balance query handler, and one without
DefaultProviders == {"aihubmix", "aiping", "siliconflow", "openrouter", "deepseek"}

ProviderIds == DefaultProviders \cup {"acme"}

\* the provider ids the callers pass
CalledProviders == {"deepseek", "openrouter", "acme"}

\* results of `await handler.queryBalance(providerId)`: a BalanceQueryResult, or a
\* rejection with an Error
BalanceOutcomes ==
    [kind : {"ok"}, data : Balances, msg : {"CNY"}]
        \cup {[kind |-> "throw", data |-> 0, msg |-> "network"]}

\* `{ balance: 0, currency: 'CNY' }`
DefaultBalance == [kind |-> "ok", data |-> 0, msg |-> "CNY"]

\* BalanceQueryManager after module load: `queryHandlers = new Map()`,
\* `initialized = false`; pending holds the handler calls that have not settled,
\* defaultRegs counts the runs of registerDefaultHandlers (history)
EmptyManager ==
    [queryHandlers |-> [p \in ProviderIds |-> "none"],
     initialized   |-> FALSE,
     pending       |-> EmptyBag,
     defaultRegs   |-> 0]

\* the keys of the built-in status bars, in the order registerBuiltInStatusBars
\* creates them
BuiltInKeys == <<"minimax", "kimi", "moonshot", "compatible">>

KeySet == {BuiltInKeys[i] : i \in 1..Len(BuiltInKeys)}

\* the keys the providers pass to the manager: a status bar key and a provider key
\* that names no status bar
CalledKeys == {"moonshot", "deepseek"}

\* the fields validateConfig looks at
RequiredFields == {"id", "name", "refreshCommand", "cacheKeyPrefix", "logPrefix", "icon"}

\* the config a status bar's constructor passes to super()
ValidConfig(k) ==
    [f \in RequiredFields |-> k] @@ [priority |-> [type |-> "number", value |-> 79]]

\* configs with an empty required field or a priority that is not a number
ConfigsOf(k) ==
    {ValidConfig(k),
     [ValidConfig(k) EXCEPT !["icon"] = ""],
     [ValidConfig(k) EXCEPT !["priority"] = [type |-> "string", value |-> 79]]}

\* one IStatusBar instance as the manager sees it: how far its initialize() got,
\* and whether checkAndShowStatus() and delayedUpdate() were called on it
Bar(phase) == [phase |-> phase, checked |-> FALSE, scheduled |-> FALSE]

NoBar == Bar("absent")

\* StatusBarManager after module load: `statusBars = new Map()`,
\* `initialized = false`; awaiting and pending describe the initializeAll call
\* suspended at `await Promise.all(initPromises)`
EmptyStatusBarManager ==
    [statusBars  |-> [k \in KeySet \cup CalledKeys |-> NoBar],
     initialized |-> FALSE,
     awaiting    |-> FALSE,
     pending     |-> {}]

\* a suspended coroutine: where it waits, whether executeApiQuery was called with
\* isManualRefresh, whether the debounce callback awaits it, and for a backend query
\* the time it was requested and whether dispose() has run since (history)
Task(pc, manual, deb, at) ==
    [pc |-> pc, manual |-> manual, deb |-> deb, at |-> at, stale |-> FALSE]

\* dispose() has run: the backend queries in flight are from before it (history)
MarkStale(s) ==
    [s EXCEPT !.tasks = BagOfAll(LAMBDA t : IF t.pc = "query"
                                            THEN [t EXCEPT !.stale = TRUE]
                                            ELSE t, @)]

Spawn(bag, t) == bag (+) SetToBag({t})

Retire(bag, t) == bag (-) SetToBag({t})

\* a timer handle: undefined, naming a pending timer (live), or naming a timer that
\* has fired or was cleared (dead; still truthy)
NoHandle == [st |-> "undefined", due |-> 0]

LiveHandle(due) == [st |-> "live", due |-> due]

\* the mutable fields of the engine, the timers of the event loop and the store
Eng == [initialized |-> initialized, context |-> context, item |-> item,
        lastStatusData |-> lastStatusData, store |-> store, isLoading |-> isLoading,
        lastDelayedUpdateTime |-> lastDelayedUpdateTime,
        updateDebouncer |-> updateDebouncer, timeouts |-> timeouts,
        cacheUpdateTimer |-> cacheUpdateTimer, intervals |-> intervals,
        command |-> command, leaderTasks |-> leaderTasks,
        tasks |-> tasks]

Ev(op, issued, manual, out) == [op |-> op, issued |-> issued, manual |-> manual, out |-> out]

NoOut == [kind |-> "none", data |-> 0, msg |-> ""]

\* whether dispose() had run on the engine before this call, for the history
DisposeOut == [kind |-> IF disposed THEN "again" ELSE "none", data |-> 0, msg |-> ""]

\* what `await this.shouldShowStatusBar()` gave, for the history
ShowOut(o) == [kind |-> o, data |-> 0, msg |-> ""]

\* the job ends in state s, having been the job e
Commit(s, e) ==
    /\ initialized' = s.initialized
    /\ context' = s.context
    /\ item' = s.item
    /\ lastStatusData' = s.lastStatusData
    /\ store' = s.store
    /\ isLoading' = s.isLoading
    /\ lastDelayedUpdateTime' = s.lastDelayedUpdateTime
    /\ updateDebouncer' = s.updateDebouncer
    /\ timeouts' = s.timeouts
    /\ cacheUpdateTimer' = s.cacheUpdateTimer
    /\ intervals' = s.intervals
    /\ command' = s.command
    /\ leaderTasks' = s.leaderTasks
    /\ tasks' = s.tasks
    /\ ev' = e

InFlightOf(bag) == {t \in BagToSet(bag) : t.pc = "query"}

\* number of performApiQuery calls that have not completed
NumInFlightOf(bag) == BagCardinality([t \in InFlightOf(bag) |-> bag[t]])

NumInFlight == NumInFlightOf(tasks)

NumTasks == BagCardinality(tasks)

\* number of coroutines of the bag suspended at pc
NumPc(bag, pc) == BagCardinality([t \in {x \in BagToSet(bag) : x.pc = pc} |-> bag[t]])

NumTimers == BagCardinality(timeouts)

(* ------------------------- BaseStatusBarItem -------------------------- *)
\* statusBarItem.show() / hide() behind `if (this.statusBarItem)`
showItem(s) == IF s.item.exists THEN [s EXCEPT !.item.visible = TRUE] ELSE s

hideItem(s) == IF s.item.exists THEN [s EXCEPT !.item.visible = FALSE] ELSE s

\* clearTimeout(this.updateDebouncer): a pending timer is removed, the handle stays
clearDebounceTimer(s) ==
    IF s.updateDebouncer.st = "live"
    THEN [s EXCEPT !.timeouts = Retire(@, s.updateDebouncer.due),
                   !.updateDebouncer.st = "dead"]
    ELSE s

\* the `finally { this.updateDebouncer = undefined }` of the debounce callback, run
\* when the performInitialUpdate it awaits has ended
debounceDone(s, deb) == IF deb THEN [s EXCEPT !.updateDebouncer = NoHandle] ELSE s

\* mutant: an age of 0 ms is not taken as fresh
isFreshStrict(s) ==
    LET dataAge == now - s.lastStatusData.timestamp
    IN  dataAge > 0 /\ dataAge < FRESH_MS

\* executeApiQuery, freshness test: 0 <= Date.now() - timestamp < 5000
isFresh(s) ==
    LET dataAge == now - s.lastStatusData.timestamp
    IN  dataAge >= 0 /\ dataAge < FRESH_MS

\* executeApiQuery up to `await this.performApiQuery()`
executeApiQuery(s, manual, deb) ==
    IF s.isLoading
    THEN debounceDone(s, deb)
    ELSE IF ~manual /\ s.lastStatusData.has /\ isFresh(s)
    THEN debounceDone(s, deb)
    ELSE [s EXCEPT !.isLoading = TRUE, !.tasks = Spawn(@, Task("query", manual, deb, now))]

\* updateStatusBarUI
updateStatusBarUI(s, d) ==
    IF ~s.item.exists
    THEN s
    ELSE [s EXCEPT !.item.text = getDisplayText(d),
                   !.item.warn = shouldHighlightWarning(d),
                   !.item.tooltip = generateTooltip(d)]

\* mutant: the error text is set, the tooltip is left as it was
showErrorTextOnly(s, manual, m) ==
    IF manual /\ s.item.exists THEN [s EXCEPT !.item.text = ErrText] ELSE s

\* mutant: the error state is shown for automatic refreshes too
showErrorAlways(s, manual, m) ==
    IF s.item.exists
    THEN [s EXCEPT !.item.text = ErrText, !.item.tooltip = ErrTooltip(m)]
    ELSE s

\* the error state a manual refresh shows
showError(s, manual, m) ==
    IF manual /\ s.item.exists
    THEN [s EXCEPT !.item.text = ErrText, !.item.tooltip = ErrTooltip(m)]
    ELSE s

\* mutant: the snapshot is not persisted
applyResultNoPersist(s, t, d) ==
    IF ~s.item.exists
    THEN s
    ELSE updateStatusBarUI([s EXCEPT !.lastStatusData = Cached(d, now)], d)

\* mutant: the timestamp is taken when the query is requested
applyResultAtRequest(s, t, d) ==
    IF ~s.item.exists
    THEN s
    ELSE LET c  == Cached(d, t.at)
             s1 == [s EXCEPT !.lastStatusData = c]
             s2 == IF s1.context THEN [s1 EXCEPT !.store = c] ELSE s1
         IN  updateStatusBarUI(s2, d)

\* executeApiQuery on success: cache, snapshot, UI
applyResult(s, t, d) ==
    IF ~s.item.exists
    THEN s
    ELSE LET c  == Cached(d, now)
             s1 == [s EXCEPT !.lastStatusData = c]
             s2 == IF s1.context THEN [s1 EXCEPT !.store = c] ELSE s1
         IN  updateStatusBarUI(s2, d)

\* mutant: the guard is not reset
clearLoadingMissing(s) == s

\* the `finally { this.isLoading = false }` of executeApiQuery
clearLoading(s) == [s EXCEPT !.isLoading = FALSE]

\* mutant: a failed query empties the in-memory cache
completeQueryDropsCache(s, t, out) ==
    LET s0 == [s EXCEPT !.tasks = Retire(@, t)]
        s1 == IF out.kind = "ok"
              THEN applyResult(s0, t, out.data)
              ELSE [showError(s0, t.manual, out.msg) EXCEPT !.lastStatusData = NoStatus]
    IN  debounceDone(clearLoading(s1), t.deb)

\* executeApiQuery from the completion of performApiQuery with outcome out
completeQuery(s, t, out) ==
    LET s0 == [s EXCEPT !.tasks = Retire(@, t)]
        s1 == IF out.kind = "ok"
              THEN applyResult(s0, t, out.data)
              ELSE showError(s0, t.manual, out.msg)
    IN  debounceDone(clearLoading(s1), t.deb)

\* performInitialUpdate from the resumption of `await this.shouldShowStatusBar()`
performInitialUpdate(s, t, o) ==
    LET s0 == [s EXCEPT !.tasks = Retire(@, t)]
    IN  IF o = "throw" THEN debounceDone(s0, t.deb)
        ELSE IF o = "no" THEN debounceDone(hideItem(s0), t.deb)
        ELSE executeApiQuery(showItem(s0), FALSE, t.deb)

\* performRefresh up to `await this.shouldShowStatusBar()`
performRefresh(s) ==
    LET s1 == IF s.item.exists /\ s.lastStatusData.has
              THEN [s EXCEPT !.item.text = LoadingText(s.lastStatusData.data),
                             !.item.warn = FALSE,
                             !.item.tooltip = LoadingTooltip]
              ELSE s
    IN  [s1 EXCEPT !.tasks = Spawn(@, Task("pr", TRUE, FALSE, 0))]

\* performRefresh from the resumption of its await
performRefreshResume(s, t, o) ==
    LET s0 == [s EXCEPT !.tasks = Retire(@, t)]
    IN  IF o = "throw" THEN showError(s0, TRUE, "secrets")
        ELSE IF o = "no" THEN hideItem(s0)
        ELSE executeApiQuery(showItem(s0), TRUE, FALSE)

\* delayedUpdate(delayMs)
delayedUpdate(s, delayMs) ==
    LET s1 == IF s.updateDebouncer.st # "undefined" THEN clearDebounceTimer(s) ELSE s
        timeSinceLastUpdate == now - s1.lastDelayedUpdateTime
        finalDelayMs == IF timeSinceLastUpdate < MIN_DELAYED_UPDATE_INTERVAL
                        THEN MIN_DELAYED_UPDATE_INTERVAL - timeSinceLastUpdate
                        ELSE delayMs
    IN  [s1 EXCEPT !.updateDebouncer = LiveHandle(now + finalDelayMs),
                   !.timeouts = Spawn(@, now + finalDelayMs)]

\* the debounce callback up to `await this.performInitialUpdate()`; held tells whether
\* the timer that fires is the one this.updateDebouncer names
debounceCallback(s, due, held) ==
    LET s1 == [s EXCEPT !.timeouts = Retire(@, due),
                        !.updateDebouncer.st = IF held THEN "dead" ELSE @]
    IN  [s1 EXCEPT !.lastDelayedUpdateTime = now,
                   !.tasks = Spawn(@, Task("piu", FALSE, TRUE, 0))]

\* mutant: clearInterval bookkeeping without the `if (this.cacheUpdateTimer)`
disposeUnguarded(s) ==
    LET s1 == IF s.updateDebouncer.st # "undefined"
              THEN [clearDebounceTimer(s) EXCEPT !.updateDebouncer = NoHandle]
              ELSE s
    IN  [s1 EXCEPT !.intervals = @ - 1,
                   !.cacheUpdateTimer = FALSE,
                   !.lastStatusData = NoStatus,
                   !.lastDelayedUpdateTime = 0,
                   !.isLoading = FALSE,
                   !.context = FALSE,
                   !.item = NoItem,
                   !.initialized = FALSE]

\* dispose()
dispose(s) ==
    LET s1 == IF s.updateDebouncer.st # "undefined"
              THEN [clearDebounceTimer(s) EXCEPT !.updateDebouncer = NoHandle]
              ELSE s
        s2 == IF s1.cacheUpdateTimer
              THEN [s1 EXCEPT !.intervals = @ - 1, !.cacheUpdateTimer = FALSE]
              ELSE s1
    IN  [s2 EXCEPT !.lastStatusData = NoStatus,
                   !.lastDelayedUpdateTime = 0,
                   !.isLoading = FALSE,
                   !.context = FALSE,
                   !.item = NoItem,
                   !.initialized = FALSE]

\* startCacheUpdateTimer
startCacheUpdateTimer(s) ==
    LET s1 == IF s.cacheUpdateTimer THEN [s EXCEPT !.intervals = @ - 1] ELSE s
    IN  [s1 EXCEPT !.intervals = @ + 1, !.cacheUpdateTimer = TRUE]

\* mutant: the `if (this.initialized) return` is missing
initializeUnguarded(s) ==
    [s EXCEPT !.context = TRUE, !.item = FreshItem,
              !.tasks = Spawn(@, Task("init", FALSE, FALSE, 0))]

\* initialize(context) up to `await this.shouldShowStatusBar()`
initialize(s) ==
    IF s.initialized
    THEN s
    ELSE [s EXCEPT !.context = TRUE, !.item = FreshItem,
                   !.tasks = Spawn(@, Task("init", FALSE, FALSE, 0))]

\* initialize from the resumption of its await.  statusBarItem.show() on an item that
\* dispose() removed meanwhile is a TypeError, and vscode.commands.registerCommand
\* throws when the command id is already registered: both end initialize there
initializeResume(s, t, o) ==
    LET s0 == [s EXCEPT !.tasks = Retire(@, t)]
    IN  IF o = "throw" \/ (o = "yes" /\ ~s0.item.exists) THEN s0
        ELSE LET s1 == IF o = "yes" THEN showItem(s0) ELSE s0
             IN  IF s1.command THEN s1
                 ELSE LET s2 == [s1 EXCEPT !.command = TRUE,
                                           !.tasks = Spawn(@, Task("piu", FALSE, FALSE, 0))]
                          s3 == startCacheUpdateTimer(s2)
                      IN  [s3 EXCEPT !.initialized = TRUE, !.leaderTasks = @ + 1]

\* checkAndShowStatus up to its await
checkAndShowStatus(s) ==
    IF s.item.exists THEN [s EXCEPT !.tasks = Spawn(@, Task("cas", FALSE, FALSE, 0))] ELSE s

\* mutant: a predicate that no longer holds leaves the item as it is
checkAndShowStatusResumeNoHide(s, t, o) ==
    LET s0 == [s EXCEPT !.tasks = Retire(@, t)]
    IN  IF o = "throw" \/ ~s0.item.exists THEN s0
        ELSE IF o = "yes"
        THEN [showItem(s0) EXCEPT !.tasks = Spawn(@, Task("piu", FALSE, FALSE, 0))]
        ELSE s0

\* checkAndShowStatus from the resumption of its await (show()/hide() on a removed
\* item is a TypeError)
checkAndShowStatusResume(s, t, o) ==
    LET s0 == [s EXCEPT !.tasks = Retire(@, t)]
    IN  IF o = "throw" \/ ~s0.item.exists THEN s0
        ELSE IF o = "yes"
        THEN [showItem(s0) EXCEPT !.tasks = Spawn(@, Task("piu", FALSE, FALSE, 0))]
        ELSE hideItem(s0)

\* mutant: the adopted snapshot is stamped with the time of the adoption
updateFromCacheRestamp(s) ==
    IF ~s.context \/ ~s.item.exists \/ s.isLoading THEN s
    ELSE IF ~s.store.has THEN s
    ELSE IF now - s.store.timestamp > CACHE_ADOPT_MS THEN s
    ELSE updateStatusBarUI([s EXCEPT !.lastStatusData = Cached(s.store.data, now)],
                           s.store.data)

\* mutant: a snapshot is adopted whatever its age
updateFromCacheAnyAge(s) ==
    IF ~s.context \/ ~s.item.exists \/ s.isLoading THEN s
    ELSE IF ~s.store.has THEN s
    ELSE updateStatusBarUI([s EXCEPT !.lastStatusData = s.store], s.store.data)

\* mutant: snapshots up to 60 s old are adopted
updateFromCacheSixty(s) ==
    IF ~s.context \/ ~s.item.exists \/ s.isLoading THEN s
    ELSE IF ~s.store.has THEN s
    ELSE IF now - s.store.timestamp > STALE_LOG_MS THEN s
    ELSE updateStatusBarUI([s EXCEPT !.lastStatusData = s.store], s.store.data)

\* mutant: a snapshot of exactly 30 s is not adopted
updateFromCacheStrict(s) ==
    IF ~s.context \/ ~s.item.exists \/ s.isLoading THEN s
    ELSE IF ~s.store.has THEN s
    ELSE IF now - s.store.timestamp >= CACHE_ADOPT_MS THEN s
    ELSE updateStatusBarUI([s EXCEPT !.lastStatusData = s.store], s.store.data)

\* updateFromCache
updateFromCache(s) ==
    IF ~s.context \/ ~s.item.exists \/ s.isLoading THEN s
    ELSE IF ~s.store.has THEN s
    ELSE IF now - s.store.timestamp > CACHE_ADOPT_MS THEN s
    ELSE updateStatusBarUI([s EXCEPT !.lastStatusData = s.store], s.store.data)

\* the level at which updateFromCache writes to the log, if it does
updateFromCacheLog(s) ==
    IF ~s.context \/ ~s.item.exists \/ s.isLoading THEN "none"
    ELSE IF ~s.store.has THEN "none"
    ELSE IF now - s.store.timestamp > CACHE_ADOPT_MS
    THEN IF now - s.store.timestamp < STALE_LOG_MS THEN "debug" ELSE "none"
    ELSE "debug"

\* what updateFromCache logged, for the history
LogOut(l) == [kind |-> l, data |-> 0, msg |-> ""]

\* mutant: the refresh is due after the full five minutes
shouldRefreshFiveMinutes(s) ==
    s.lastStatusData.has /\ now - s.lastStatusData.timestamp > LongDelta

\* MoonshotStatusBar.shouldRefresh
shouldRefresh(s) ==
    s.lastStatusData.has /\ now - s.lastStatusData.timestamp > REFRESH_INTERVAL

\* the periodic task registered by registerLeaderPeriodicTask
leaderPeriodicTask(s) ==
    IF ~s.initialized \/ ~s.context \/ ~s.item.exists THEN s
    ELSE IF shouldRefresh(s) THEN executeApiQuery(s, FALSE, FALSE)
    ELSE s

\* whether the job that led from s to s2 called performApiQuery
Issued(s, s2) == NumInFlightOf(s2.tasks) > NumInFlightOf(s.tasks)

Init ==
    /\ now = Epoch
    /\ advances = 0
    /\ initialized = FALSE
    /\ context = FALSE
    /\ item = NoItem
    /\ lastStatusData = NoStatus
    /\ store = NoStatus
    /\ isLoading = FALSE
    /\ lastDelayedUpdateTime = 0
    /\ updateDebouncer = NoHandle
    /\ timeouts = EmptyBag
    /\ cacheUpdateTimer = FALSE
    /\ intervals = 0
    /\ command = FALSE
    /\ leaderTasks = 0
    /\ tasks = EmptyBag
    /\ disposed = FALSE
    /\ restored = NoStatus
    /\ lease = NoLease
    /\ lpc = [p \in Procs |-> "idle"]
    /\ leader = [p \in Procs |-> FALSE]
    /\ late = FALSE
    /\ heldLease = NoLease
    /\ balanceQueryManager = EmptyManager
    /\ statusBarManager = EmptyStatusBarManager
    /\ ev = Ev("init", FALSE, FALSE, NoOut)

Frame == UNCHANGED <<initialized, context, item, lastStatusData, store, isLoading,
                     lastDelayedUpdateTime, updateDebouncer, timeouts, cacheUpdateTimer,
                     intervals, command, leaderTasks, tasks>>

\* time passes between two jobs
Advance ==
    /\ advances < MaxAdvance
    /\ \E d \in Deltas : now' = now + d
    /\ advances' = advances + 1
    /\ ev' = Ev("advance", FALSE, FALSE, NoOut)
    /\ Frame
    /\ UNCHANGED <<disposed, restored, lease, lpc, leader, late, heldLease, balanceQueryManager, statusBarManager>>

\* more than the refresh interval passes between two jobs
RefreshIntervalPasses ==
    /\ advances < MaxAdvance
    /\ now' = now + LongDelta
    /\ advances' = advances + 1
    /\ ev' = Ev("advanceLong", FALSE, FALSE, NoOut)
    /\ Frame
    /\ UNCHANGED <<disposed, restored, lease, lpc, leader, late, heldLease, balanceQueryManager, statusBarManager>>

\* a time stamp as it reads once LongDelta more has passed, with the clock held at
\* its bound: the stamp moves back, and ages beyond 2 * LongDelta are not told apart
Receded(t) == IF t - LongDelta > now - 2 * LongDelta THEN t - LongDelta ELSE now - 2 * LongDelta

\* more than the refresh interval passes between two jobs when the clock of the
\* model has reached its bound: every age grows by LongDelta
RefreshIntervalPassesLate ==
    /\ advances = MaxAdvance
    /\ NumTimers = 0 /\ lastDelayedUpdateTime = 0
    /\ lastStatusData' = IF lastStatusData.has
                         THEN [lastStatusData EXCEPT !.timestamp = Receded(@)]
                         ELSE lastStatusData
    /\ store' = IF store.has THEN [store EXCEPT !.timestamp = Receded(@)] ELSE store
    /\ tasks' = BagOfAll(LAMBDA t : IF t.pc = "query" THEN [t EXCEPT !.at = Receded(@)] ELSE t,
                         tasks)
    /\ ev' = Ev("advanceLong", FALSE, FALSE, NoOut)
    /\ UNCHANGED <<now, advances, initialized, context, item, isLoading,
                   lastDelayedUpdateTime, updateDebouncer, timeouts, cacheUpdateTimer,
                   intervals, command, leaderTasks>>
    /\ UNCHANGED <<disposed, restored, lease, lpc, leader, late, heldLease, balanceQueryManager, statusBarManager>>

\* almost the minimum interval between delayed updates passes between two jobs
AlmostIntervalPasses ==
    /\ advances < MaxAdvance
    /\ now' = now + NearInterval
    /\ advances' = advances + 1
    /\ ev' = Ev("advanceNear", FALSE, FALSE, NoOut)
    /\ Frame
    /\ UNCHANGED <<disposed, restored, lease, lpc, leader, late, heldLease, balanceQueryManager, statusBarManager>>

Clock == UNCHANGED <<now, advances, restored, lease, lpc, leader, late, heldLease, balanceQueryManager, statusBarManager>>

Same == UNCHANGED <<now, advances, disposed, restored, lease, lpc, leader, late, heldLease, balanceQueryManager, statusBarManager>>

\* StatusBarManager.initializeAll -> initialize(context)
Initialize ==
    /\ NumTasks < MaxTasks
    /\ leaderTasks + BagCardinality([t \in {x \in BagToSet(tasks) : x.pc = "init"} |-> tasks[t]])
           < MaxInit
    /\ Commit(initialize(Eng), Ev("initialize", FALSE, FALSE, NoOut))
    /\ Same

InitializeResume ==
    \E t \in BagToSet(tasks), o \in ShowOutcomes :
        /\ t.pc = "init"
        /\ Commit(initializeResume(Eng, t, o), Ev("initializeResume", FALSE, FALSE, ShowOut(o)))
        /\ Same

\* StatusBarManager.checkAndShowStatus(key) -> checkAndShowStatus()
CheckAndShowStatus ==
    /\ NumTasks < MaxTasks
    /\ Commit(checkAndShowStatus(Eng), Ev("checkAndShowStatus", FALSE, FALSE, NoOut))
    /\ Same

CheckAndShowStatusResume ==
    \E t \in BagToSet(tasks), o \in ShowOutcomes :
        /\ t.pc = "cas"
        /\ Commit(checkAndShowStatusResume(Eng, t, o),
                  Ev("checkAndShowStatusResume", FALSE, FALSE, ShowOut(o)))
        /\ Same

\* StatusBarManager.delayedUpdate(key) -> delayedUpdate()
DelayedUpdate ==
    /\ NumTimers < MaxTimers
    /\ Commit(delayedUpdate(Eng, DEFAULT_DELAY_MS), Ev("delayedUpdate", FALSE, FALSE, NoOut))
    /\ Same

\* a setTimeout callback of delayedUpdate runs: the earliest pending one, once due
DebounceFire ==
    \E due \in BagToSet(timeouts), held \in BOOLEAN :
        /\ due <= now
        /\ \A d \in BagToSet(timeouts) : due <= d
        /\ NumTasks < MaxTasks
        /\ held => updateDebouncer = LiveHandle(due)
        /\ ~held => CopiesIn(due, timeouts) > (IF updateDebouncer = LiveHandle(due) THEN 1 ELSE 0)
        /\ Commit(debounceCallback(Eng, due, held), Ev("debounceFire", FALSE, FALSE, NoOut))
        /\ Same

PerformInitialUpdateResume ==
    \E t \in BagToSet(tasks), o \in ShowOutcomes :
        /\ t.pc = "piu"
        /\ LET s2 == performInitialUpdate(Eng, t, o)
           IN  Commit(s2, Ev("performInitialUpdate", Issued(Eng, s2), FALSE, ShowOut(o)))
        /\ Same

\* the user runs the refresh command
RefreshCommand ==
    /\ command
    /\ NumTasks < MaxTasks
    /\ Commit(IF isLoading THEN Eng ELSE performRefresh(Eng),
              Ev("refreshCommand", FALSE, TRUE, NoOut))
    /\ Same

PerformRefreshResume ==
    \E t \in BagToSet(tasks), o \in ShowOutcomes :
        /\ t.pc = "pr"
        /\ LET s2 == performRefreshResume(Eng, t, o)
           IN  Commit(s2, Ev("performRefresh", Issued(Eng, s2), TRUE, ShowOut(o)))
        /\ Same

\* performApiQuery settles
CompleteQuery ==
    \E t \in BagToSet(tasks), out \in QueryOutcomes :
        /\ t.pc = "query"
        /\ Commit(completeQuery(Eng, t, out), Ev("completeQuery", FALSE, t.manual, out))
        /\ Same

\* the setInterval callback of startCacheUpdateTimer runs (every 10 s while the timer
\* is live; the model leaves the period open)
CachePoll ==
    /\ intervals > 0
    /\ Commit(updateFromCache(Eng),
              Ev("updateFromCache", FALSE, FALSE, LogOut(updateFromCacheLog(Eng))))
    /\ Same

\* LeaderElectionService runs one registered periodic task of this engine
LeaderTick ==
    /\ leaderTasks > 0
    /\ NumTasks < MaxTasks
    /\ LET s2 == leaderPeriodicTask(Eng)
       IN  Commit(s2, Ev("leaderTask", Issued(Eng, s2), FALSE, NoOut))
    /\ Same

\* dispose() called directly (StatusBarManager.disposeAll)
Dispose ==
    /\ Commit(MarkStale(dispose(Eng)), Ev("dispose", FALSE, FALSE, DisposeOut))
    /\ disposed' = TRUE
    /\ Clock

\* the extension context is disposed: its subscriptions (the refresh command, the
\* cleanup hook that calls dispose()) are disposed
ContextDisposed ==
    /\ command
    /\ Commit(MarkStale([dispose(Eng) EXCEPT !.command = FALSE]),
              Ev("contextDisposed", FALSE, FALSE, NoOut))
    /\ disposed' = TRUE
    /\ Clock

\* another window's engine completes a query and persists its snapshot, stamped by
\* its own clock
OtherProcessWrite ==
    \E d \in Balances, skew \in {0, ClockSkew} :
        /\ store' = Cached(d, now + skew)
        /\ ev' = Ev("otherProcessWrite", FALSE, FALSE, NoOut)
        /\ UNCHANGED <<now, advances, disposed, restored, lease, lpc, leader, late, heldLease, balanceQueryManager, statusBarManager, initialized, context, item, lastStatusData, isLoading,
                       lastDelayedUpdateTime, updateDebouncer, timeouts, cacheUpdateTimer,
                       intervals, command, leaderTasks, tasks>>

\* the store is found to hold a snapshot that another window's engine persisted
\* some time ago and that nobody has overwritten since
OldSnapshotInStore ==
    \E d \in Balances, age \in SnapshotAges :
        /\ store' = Cached(d, now - age)
        /\ ev' = Ev("oldSnapshot", FALSE, FALSE, NoOut)
        /\ UNCHANGED <<now, advances, disposed, restored, lease, lpc, leader, late, heldLease, balanceQueryManager, statusBarManager, initialized, context, item, lastStatusData, isLoading,
                       lastDelayedUpdateTime, updateDebouncer, timeouts, cacheUpdateTimer,
                       intervals, command, leaderTasks, tasks>>

\* globalState keeps the snapshot as JSON text: an object with the members data and
\* timestamp, or nothing under the key
JSONStringify(c) == IF c.has THEN <<"data", c.data, "timestamp", c.timestamp>> ELSE << >>

JSONParse(j) == IF j = << >> THEN NoStatus ELSE Cached(j[2], j[4])

\* the extension host ends and a new one starts: a new engine instance with the same
\* cache key; timers, coroutines and registrations of the old process are gone, the
\* store is read back from disk
Restart ==
    /\ store.has
    /\ ~restored.has
    /\ store' = JSONParse(JSONStringify(store))
    /\ restored' = store'
    /\ initialized' = FALSE
    /\ context' = FALSE
    /\ item' = NoItem
    /\ lastStatusData' = NoStatus
    /\ isLoading' = FALSE
    /\ lastDelayedUpdateTime' = 0
    /\ updateDebouncer' = NoHandle
    /\ timeouts' = EmptyBag
    /\ cacheUpdateTimer' = FALSE
    /\ intervals' = 0
    /\ command' = FALSE
    /\ leaderTasks' = 0
    /\ tasks' = EmptyBag
    /\ disposed' = FALSE
    /\ ev' = Ev("restart", FALSE, FALSE, NoOut)
    /\ UNCHANGED <<now, advances, lease, lpc, leader, late, heldLease, balanceQueryManager, statusBarManager>>

(* ---------------------- Leader Election Service ----------------------- *)
\* what an election step did, for the history: the process, whether it ended the
\* step as leader, and the ownerId it read
LeaderOut(p, kind, seen) == [kind |-> kind, data |-> 0, msg |-> <<p, seen>>]

\* mutant: a lease never counts as expired
LeaseNeverExpired(l) == FALSE

LeaseExpired(l) == l.expiresAt < now

\* the other process considers itself the leader on the record now in the store
HolderConfirmed(p) ==
    \E q \in Procs \ {p} : leader[q] /\ lpc[q] = "idle" /\ lease.has /\ lease.ownerId = q

ElectionFrame ==
    Frame /\ UNCHANGED <<now, advances, disposed, restored, heldLease, balanceQueryManager, statusBarManager>>

\* step 1, 3, 4: the tick reads the LeaseRecord; an absent or expired lease is to be
\* claimed, an own lease is renewed and the periodic tasks run, another owner's
\* lease makes the process a follower; a failed read or write means follower
LeaderRead(p, r, w) ==
    /\ lpc[p] = "idle"
    /\ IF r = "fail"
       THEN /\ leader' = [leader EXCEPT ![p] = FALSE]
            /\ ev' = Ev("leaderRead", FALSE, FALSE, LeaderOut(p, "unknown", ""))
            /\ UNCHANGED <<lease, lpc, late>>
       ELSE IF ~lease.has \/ LeaseExpired(lease)
       THEN /\ lpc' = [lpc EXCEPT ![p] = "claim"]
            /\ leader' = [leader EXCEPT ![p] = FALSE]
            /\ ev' = Ev("leaderRead", FALSE, FALSE, LeaderOut(p, "claiming", lease.ownerId))
            /\ UNCHANGED <<lease, late>>
       ELSE IF lease.ownerId = p
       THEN IF w = "ok"
            THEN /\ lease' = [lease EXCEPT !.expiresAt = now + LEASE_MS]
                 /\ leader' = [leader EXCEPT ![p] = TRUE]
                 /\ ev' = Ev("leaderRead", TRUE, FALSE, LeaderOut(p, "leader", p))
                 /\ UNCHANGED <<lpc, late>>
            ELSE /\ leader' = [leader EXCEPT ![p] = FALSE]
                 /\ ev' = Ev("leaderRead", FALSE, FALSE, LeaderOut(p, "unknown", p))
                 /\ UNCHANGED <<lease, lpc, late>>
       ELSE /\ leader' = [leader EXCEPT ![p] = FALSE]
            /\ ev' = Ev("leaderRead", FALSE, FALSE, LeaderOut(p, "follower", lease.ownerId))
            /\ UNCHANGED <<lease, lpc, late>>
    /\ ElectionFrame

\* step 2, first half: write a LeaseRecord with this process's id
LeaderClaim(p, w) ==
    /\ lpc[p] = "claim"
    /\ IF w = "ok"
       THEN /\ lease' = Lease(p, now)
            /\ lpc' = [lpc EXCEPT ![p] = "confirm"]
            /\ late' = (late \/ HolderConfirmed(p))
            /\ ev' = Ev("leaderClaim", FALSE, FALSE, LeaderOut(p, "claimed", p))
       ELSE /\ lpc' = [lpc EXCEPT ![p] = "idle"]
            /\ ev' = Ev("leaderClaim", FALSE, FALSE, LeaderOut(p, "unknown", ""))
            /\ UNCHANGED <<lease, late>>
    /\ UNCHANGED leader
    /\ ElectionFrame

\* mutant: any record read back confirms the claim
confirmsAny(p, l) == l.has

\* whether the record read back shows this process as the owner
confirmsOwn(p, l) == l.has /\ l.ownerId = p /\ ~LeaseExpired(l)

\* step 2, second half: re-read after the delay; the process whose write is the one
\* observed is the leader and runs the periodic tasks
LeaderConfirm(p, r) ==
    /\ lpc[p] = "confirm"
    /\ lpc' = [lpc EXCEPT ![p] = "idle"]
    /\ IF r = "ok" /\ confirmsOwn(p, lease)
       THEN /\ leader' = [leader EXCEPT ![p] = TRUE]
            /\ ev' = Ev("leaderConfirm", TRUE, FALSE, LeaderOut(p, "leader", p))
       ELSE /\ leader' = [leader EXCEPT ![p] = FALSE]
            /\ ev' = Ev("leaderConfirm", FALSE, FALSE,
                        LeaderOut(p, IF r = "ok" THEN "follower" ELSE "unknown",
                                  IF r = "ok" THEN lease.ownerId ELSE ""))
    /\ UNCHANGED <<lease, late>>
    /\ ElectionFrame

\* mutant: stop() deletes the LeaseRecord
leaseRelinquished(p, l) == NoLease

\* stop() releases the timers and leaves the LeaseRecord as it is
leaseAfterStop(p, l) == l

\* stop(), or the death of the process: no tick of p runs any more
LeaderStop(p) ==
    /\ \A q \in Procs : lpc[q] # "stopped"
    /\ lpc' = [lpc EXCEPT ![p] = "stopped"]
    /\ leader' = [leader EXCEPT ![p] = FALSE]
    /\ lease' = leaseAfterStop(p, lease)
    /\ heldLease' = IF leader[p] /\ lease.has /\ lease.ownerId = p /\ ~LeaseExpired(lease)
               THEN lease ELSE heldLease
    /\ ev' = Ev("leaderStop", FALSE, FALSE, LeaderOut(p, "stopped", lease.ownerId))
    /\ Frame
    /\ UNCHANGED <<now, advances, disposed, restored, late, balanceQueryManager, statusBarManager>>

ElectionStop == \E p \in Procs : LeaderStop(p)

ElectionRead == \E p \in Procs, r \in StoreOutcomes, w \in StoreOutcomes : LeaderRead(p, r, w)

ElectionClaim == \E p \in Procs, w \in StoreOutcomes : LeaderClaim(p, w)

ElectionConfirm == \E p \in Procs, r \in StoreOutcomes : LeaderConfirm(p, r)

(* ------------------------- BalanceQueryManager ------------------------ *)
\* BalanceQueryManager.registerHandler
registerHandler(r, p, h) == [r EXCEPT !.queryHandlers[p] = h]

\* BalanceQueryManager.unregisterHandler
unregisterHandler(r, p) ==
    IF r.queryHandlers[p] # "none" THEN [r EXCEPT !.queryHandlers[p] = "none"] ELSE r

\* BalanceQueryManager.registerDefaultHandlers
registerDefaultHandlers(r) ==
    [r EXCEPT !.queryHandlers = [p \in ProviderIds |->
                                    IF p \in DefaultProviders THEN "default" ELSE @[p]],
              !.defaultRegs = IF @ < 2 THEN @ + 1 ELSE @]

\* mutant: the defaults are registered on every use
ensureInitializedAlways(r) == [registerDefaultHandlers(r) EXCEPT !.initialized = TRUE]

\* BalanceQueryManager.ensureInitialized
ensureInitialized(r) ==
    IF ~r.initialized
    THEN [registerDefaultHandlers(r) EXCEPT !.initialized = TRUE]
    ELSE r

\* BalanceQueryManager.hasHandler
hasHandler(r, p) == ensureInitialized(r).queryHandlers[p] # "none"

\* BalanceQueryManager.getRegisteredProviders
getRegisteredProviders(r) ==
    {p \in ProviderIds : ensureInitialized(r).queryHandlers[p] # "none"}

\* a call of handler.queryBalance that has not settled: the provider id, the handler
\* and how often the call invoked it
HandlerCall(p, h) == [p |-> p, h |-> h, calls |-> 1]

\* mutant: an unregistered provider is served by the deepseek handler
queryBalanceFallback(r, p) ==
    LET r1 == ensureInitialized(r)
    IN  [r1 EXCEPT !.pending = Spawn(@, HandlerCall(p, "default"))]

\* BalanceQueryManager.queryBalance up to `await handler.queryBalance(providerId)`,
\* or to its return when there is no handler
queryBalance(r, p) ==
    LET r1 == ensureInitialized(r)
        h  == r1.queryHandlers[p]
    IN  IF h = "none" THEN r1 ELSE [r1 EXCEPT !.pending = Spawn(@, HandlerCall(p, h))]

\* mutant: a failed handler call is tried once more
settleRetry(r, c, o) ==
    IF o.kind = "throw" /\ c.calls < 2
    THEN [r EXCEPT !.pending = Spawn(Retire(@, c), [c EXCEPT !.calls = 2])]
    ELSE [r EXCEPT !.pending = Retire(@, c)]

\* queryBalance from the settling of the handler's promise: return the result or
\* rethrow the error
settle(r, c, o) == [r EXCEPT !.pending = Retire(@, c)]

\* what the caller of queryBalance gets, with the provider id
BalanceOut(p, o) == [kind |-> o.kind, data |-> o.data, msg |-> <<p, o.msg>>]

RegistryFrame ==
    /\ Frame
    /\ UNCHANGED <<now, advances, disposed, restored, lease, lpc, leader, late, heldLease,
                   statusBarManager>>

RegisterHandler ==
    \E p \in CalledProviders :
        /\ balanceQueryManager' = registerHandler(balanceQueryManager, p, "custom")
        /\ ev' = Ev("registerHandler", FALSE, FALSE, BalanceOut(p, NoOut))
        /\ RegistryFrame

UnregisterHandler ==
    \E p \in CalledProviders :
        /\ balanceQueryManager' = unregisterHandler(balanceQueryManager, p)
        /\ ev' = Ev("unregisterHandler", FALSE, FALSE, BalanceOut(p, NoOut))
        /\ RegistryFrame

\* queryBalance(p) is called: issued tells whether a handler was invoked, and a
\* call without a handler returns at once
QueryBalance ==
    \E p \in CalledProviders :
        /\ BagCardinality(balanceQueryManager.pending) < MaxTasks
        /\ LET r2 == queryBalance(balanceQueryManager, p)
           IN  /\ balanceQueryManager' = r2
               /\ ev' = Ev("queryBalance", r2.pending # balanceQueryManager.pending, FALSE,
                           IF r2.pending # balanceQueryManager.pending
                           THEN BalanceOut(p, [NoOut EXCEPT !.kind = "pending"])
                           ELSE BalanceOut(p, DefaultBalance))
        /\ RegistryFrame

\* a handler's promise settles and queryBalance returns or throws
QueryBalanceSettle ==
    \E c \in BagToSet(balanceQueryManager.pending), o \in BalanceOutcomes :
        /\ LET r2 == settle(balanceQueryManager, c, o)
           IN  /\ balanceQueryManager' = r2
               /\ ev' = Ev("queryBalanceSettle", FALSE, FALSE,
                           IF r2.pending = Retire(balanceQueryManager.pending, c)
                           THEN BalanceOut(c.p, o)
                           ELSE BalanceOut(c.p, [NoOut EXCEPT !.kind = "pending"]))
        /\ RegistryFrame

HasHandler ==
    \E p \in CalledProviders :
        /\ balanceQueryManager' = ensureInitialized(balanceQueryManager)
        /\ ev' = Ev("hasHandler", FALSE, FALSE,
                    BalanceOut(p, [NoOut EXCEPT !.kind = IF hasHandler(balanceQueryManager, p)
                                                         THEN "true" ELSE "false"]))
        /\ RegistryFrame

GetRegisteredProviders ==
    /\ balanceQueryManager' = ensureInitialized(balanceQueryManager)
    /\ ev' = Ev("getRegisteredProviders", FALSE, FALSE,
                [NoOut EXCEPT !.msg = getRegisteredProviders(balanceQueryManager)])
    /\ RegistryFrame

(* --------------------------- StatusBarManager ------------------------- *)
\* BaseStatusBarItem.validateConfig: TRUE when it does not throw
validateConfig(c) ==
    /\ \A f \in RequiredFields : c[f] # ""
    /\ c.priority.type = "number"

\* StatusBarManager.registerStatusBar
registerStatusBar(m, k, bar) == [m EXCEPT !.statusBars[k] = bar]

\* StatusBarManager.registerBuiltInStatusBars from the i-th `new`: a constructor that
\* throws ends it
RECURSIVE registerBuiltInStatusBars(_, _, _)
registerBuiltInStatusBars(m, cfg, i) ==
    IF i > Len(BuiltInKeys) THEN [m |-> m, thrown |-> FALSE]
    ELSE IF ~validateConfig(cfg[BuiltInKeys[i]]) THEN [m |-> m, thrown |-> TRUE]
    ELSE registerBuiltInStatusBars(registerStatusBar(m, BuiltInKeys[i], Bar("new")), cfg, i + 1)

Registered(m) == {k \in DOMAIN m.statusBars : m.statusBars[k].phase # "absent"}

\* StatusBarManager.initializeAll up to `await Promise.all(initPromises)`: the state
\* and how the call went on (skipped, thrown, or awaiting)
initializeAll(m, cfg) ==
    IF m.initialized THEN [m |-> m, kind |-> "skipped"]
    ELSE LET r == registerBuiltInStatusBars(m, cfg, 1)
         IN  IF r.thrown THEN [m |-> r.m, kind |-> "throw"]
             ELSE [m |-> [r.m EXCEPT
                            !.statusBars = [k \in DOMAIN @ |->
                                              IF @[k].phase = "absent" THEN @[k]
                                              ELSE [@[k] EXCEPT !.phase = "initializing"]],
                            !.awaiting = TRUE,
                            !.pending = Registered(r.m)],
                   kind |-> "awaiting"]

\* mutant: the first rejection ends the batch
initSettledFailFast(m, k, o) ==
    IF o = "ok"
    THEN [m EXCEPT !.pending = @ \ {k},
                   !.statusBars[k] = IF @.phase = "initializing"
                                     THEN [@ EXCEPT !.phase = "active"] ELSE @]
    ELSE [m EXCEPT !.pending = {},
                   !.statusBars[k] = IF @.phase = "initializing"
                                     THEN [@ EXCEPT !.phase = "failed"] ELSE @]

\* one `await statusBar.initialize(context)` of the map callback settles; a
\* rejection is caught and logged
initSettled(m, k, o) ==
    [m EXCEPT !.pending = @ \ {k},
              !.statusBars[k] = IF @.phase = "initializing"
                                THEN [@ EXCEPT !.phase = IF o = "ok" THEN "active" ELSE "failed"]
                                ELSE @]

\* initializeAll from the resumption of `await Promise.all(initPromises)`
initializeAllResume(m) == [m EXCEPT !.initialized = TRUE, !.awaiting = FALSE]

\* mutant: a missing key is served by the moonshot status bar
getStatusBarOrMoonshot(m, k) ==
    IF m.statusBars[k].phase = "absent" THEN "moonshot" ELSE k

\* StatusBarManager.getStatusBar: the key of the entry found, "" for undefined
getStatusBar(m, k) == IF m.statusBars[k].phase = "absent" THEN "" ELSE k

\* StatusBarManager.checkAndShowStatus
managerCheckAndShowStatus(m, k) ==
    LET b == getStatusBar(m, k)
    IN  IF b # "" THEN [m EXCEPT !.statusBars[b].checked = TRUE] ELSE m

\* StatusBarManager.delayedUpdate
managerDelayedUpdate(m, k) ==
    LET b == getStatusBar(m, k)
    IN  IF b # "" THEN [m EXCEPT !.statusBars[b].scheduled = TRUE] ELSE m

\* mutant: the first dispose() that throws ends disposeAll
disposeAllUnguarded(m, throwing) ==
    IF Registered(m) \cap throwing # {}
    THEN [m |-> m, kind |-> "throw", called |-> Registered(m) \cap throwing]
    ELSE [m |-> [m EXCEPT !.statusBars = [k \in DOMAIN @ |-> NoBar], !.initialized = FALSE],
          kind |-> "returned", called |-> Registered(m)]

\* StatusBarManager.disposeAll: the state, how it ended and the keys whose dispose()
\* was called; throwing are the status bars whose dispose() throws
disposeAll(m, throwing) ==
    [m |-> [m EXCEPT !.statusBars = [k \in DOMAIN @ |-> NoBar], !.initialized = FALSE],
     kind |-> "returned", called |-> Registered(m)]

ManagerOut(kind, info) == [kind |-> kind, data |-> 0, msg |-> info]

ManagerFrame ==
    /\ Frame
    /\ UNCHANGED <<now, advances, disposed, restored, lease, lpc, leader, late, heldLease,
                   balanceQueryManager>>

\* StatusBarManager.initializeAll(context) is called (activate calls it once: one call
\* is in flight at a time); one status bar may have an invalid config
InitializeAll ==
    \E bad \in KeySet :
      \E c \in ConfigsOf(bad) :
        /\ ~statusBarManager.awaiting
        /\ LET cfg == [k \in KeySet |-> IF k = bad THEN c ELSE ValidConfig(k)]
               r   == initializeAll(statusBarManager, cfg)
           IN  /\ statusBarManager' = r.m
               /\ ev' = Ev("initializeAll", FALSE, FALSE,
                           ManagerOut(r.kind, {k \in KeySet : ~validateConfig(cfg[k])}))
        /\ ManagerFrame

\* the initialize() of one status bar resolves or rejects
BarInitSettle ==
    \E k \in statusBarManager.pending, o \in {"ok", "throw"} :
        /\ statusBarManager' = initSettled(statusBarManager, k, o)
        /\ ev' = Ev("barInitialize", FALSE, FALSE, ManagerOut(o, k))
        /\ ManagerFrame

\* Promise.all resolves once every map callback has returned
InitializeAllResume ==
    /\ statusBarManager.awaiting
    /\ statusBarManager.pending = {}
    /\ statusBarManager' = initializeAllResume(statusBarManager)
    /\ ev' = Ev("initializeAllResume", FALSE, FALSE, ManagerOut("resolved", {}))
    /\ ManagerFrame

ManagerCheckAndShowStatus ==
    \E k \in CalledKeys :
        /\ statusBarManager' = managerCheckAndShowStatus(statusBarManager, k)
        /\ ev' = Ev("managerCheckAndShowStatus", FALSE, FALSE,
                    ManagerOut(IF getStatusBar(statusBarManager, k) = "" THEN "warn" ELSE "called", k))
        /\ ManagerFrame

ManagerDelayedUpdate ==
    \E k \in CalledKeys :
        /\ statusBarManager' = managerDelayedUpdate(statusBarManager, k)
        /\ ev' = Ev("managerDelayedUpdate", FALSE, FALSE,
                    ManagerOut(IF getStatusBar(statusBarManager, k) = "" THEN "warn" ELSE "called", k))
        /\ ManagerFrame

\* StatusBarManager.disposeAll() is called (deactivate)
DisposeAll ==
    \E throwing \in SUBSET {"kimi", "moonshot"} :
        /\ LET r == disposeAll(statusBarManager, throwing)
           IN  /\ statusBarManager' = r.m
               /\ ev' = Ev("disposeAll", FALSE, FALSE,
                           ManagerOut(r.kind, <<r.called, throwing \cap Registered(statusBarManager)>>))
        /\ ManagerFrame

(* ------------------------------ claims -------------------------------- *)
Completed == ev.op = "completeQuery"

Failed == Completed /\ ev.out.kind # "ok"

Succeeded == Completed /\ ev.out.kind = "ok"

\* the last job was performInitialUpdate reaching executeApiQuery(false)
AutoAttempt == ev.op = "performInitialUpdate" /\ ev.out.kind = "yes"

CacheAge == now - lastStatusData.timestamp

\* C1: at most one backend query of the engine is in flight, in every reachable state
C1_AtMostOneInFlight == NumInFlight <= 1

\* C2: when an executeApiQuery call that set the guard finishes (success, failure
\* result or exception), isLoading is false
C2_GuardCleared == Completed => ~isLoading

C2_Witness == Completed /\ ev.out.kind = "throw" /\ ~isLoading /\ NumInFlight = 0

\* C3 (as amended): an automatic refresh attempt made while cached data exists and
\* 0 <= now - cache.timestamp < 5 s issues no backend query
C3_FreshSkipsQuery ==
    (AutoAttempt /\ lastStatusData.has /\ CacheAge >= 0 /\ CacheAge < FRESH_MS) => ~ev.issued

\* C3 (original): ... made while cached data exists and now - cache.timestamp < 5 s
\* issues no backend query
C3_Original == (AutoAttempt /\ lastStatusData.has /\ CacheAge < FRESH_MS) => ~ev.issued

C3_Witness ==
    /\ AutoAttempt /\ ~ev.issued /\ ~isLoading
    /\ lastStatusData.has /\ CacheAge >= 0 /\ CacheAge < FRESH_MS

\* C4: when the backend query of a manual refresh fails, the UI element shows the
\* error text '<icon> ERR' and a tooltip with the backend's error message
C4_ManualFailureShowsError ==
    (Failed /\ ev.manual /\ item.exists)
        => (item.text = ErrText /\ item.tooltip = ErrTooltip(ev.out.msg))

C4_Witness ==
    /\ Failed /\ ev.manual /\ item.exists /\ ev.out.msg = "quota"
    /\ item.text = ErrText /\ item.tooltip.msg = "quota"

\* C5: when the backend query of an automatic refresh fails, text, tooltip and
\* warning highlight of the UI element are what they were before; so are they when
\* the automatic refresh issues its query
C5_AutoFailureKeepsUI ==
    [][/\ (ev'.op = "completeQuery" /\ ev'.out.kind # "ok" /\ ~ev'.manual) => item' = item
       /\ (ev'.issued /\ ~ev'.manual)
            => (item'.text = item.text /\ item'.tooltip = item.tooltip
                    /\ item'.warn = item.warn)]_vars

C5_Witness == Failed /\ ~ev.manual /\ item.exists /\ item.text.k = "balance"

\* C6: after a successful backend query of an Active engine the in-memory cache is
\* {data, now}, the persisted snapshot equals it, and the UI shows the text, tooltip
\* and highlight derived from the data
C6_SuccessApplied ==
    (Succeeded /\ initialized /\ context /\ item.exists)
        => /\ lastStatusData = Cached(ev.out.data, now)
           /\ store = lastStatusData
           /\ item.text = getDisplayText(ev.out.data)
           /\ item.tooltip = generateTooltip(ev.out.data)
           /\ item.warn = shouldHighlightWarning(ev.out.data)

C6_Witness ==
    /\ Succeeded /\ initialized /\ context /\ item.exists /\ advances > 0
    /\ store = Cached(ev.out.data, now) /\ item.text.cents = 4250

C8_MinInterval ==
    [][(ev'.op = "debounceFire" /\ lastDelayedUpdateTime # 0)
          => now - lastDelayedUpdateTime >= MIN_DELAYED_UPDATE_INTERVAL]_vars

\* C9: when dispose() returns no debounce timer and no cache-poll timer is pending,
\* the cache is empty, the UI element is released and the engine is not initialized
C9_DisposeReleasesAll ==
    ev.op = "dispose"
        => /\ NumTimers = 0 /\ intervals = 0
           /\ ~lastStatusData.has /\ ~item.exists /\ ~initialized

\* C10: once dispose() has run on an engine, the engine is never Active again
C10_NoReactivation == disposed => ~initialized

\* C11: initialize on an engine that is already initialized changes nothing: no UI
\* element, timer, command, leader task or coroutine is added
C11_InitializeIdempotent == [][(ev'.op = "initialize" /\ initialized) => Frame]_vars

C11_Witness ==
    /\ ev.op = "initialize" /\ initialized /\ context /\ item.exists
    /\ intervals = 1 /\ leaderTasks = 1 /\ command /\ NumPc(tasks, "init") = 0

\* C12: when initialize completes on an engine that was neither initialized nor
\* disposed, the engine is initialized with UI element and context, one cache-poll
\* timer runs, one periodic task is registered, the element is shown iff the
\* visibility predicate held, and one performInitialUpdate has been started
C12_InitializeCompletes ==
    [][(ev'.op = "initializeResume" /\ ~disposed /\ ~initialized /\ initialized')
          => /\ item'.exists /\ context'
             /\ intervals' = 1 /\ cacheUpdateTimer'
             /\ leaderTasks' = 1
             /\ item'.visible <=> (ev'.out.kind = "yes")
             /\ NumPc(tasks', "piu") = NumPc(tasks, "piu") + 1]_vars

\* the fields of the engine, the timers and the store are what they were
FieldsUnchanged ==
    UNCHANGED <<initialized, context, item, lastStatusData, store, isLoading,
                lastDelayedUpdateTime, updateDebouncer, timeouts, cacheUpdateTimer,
                intervals, command, leaderTasks>>

\* the state dispose() leaves: nothing initialized, no UI element, no context, empty
\* cache, guard clear, no timer named by a handle
Released ==
    /\ ~initialized /\ ~context /\ ~item.exists /\ ~lastStatusData.has /\ ~isLoading
    /\ lastDelayedUpdateTime = 0 /\ updateDebouncer = NoHandle
    /\ ~cacheUpdateTimer /\ intervals = 0

StaleCompleted ==
    /\ ev'.op = "completeQuery"
    /\ \E t \in BagToSet(tasks) : t.pc = "query" /\ t.stale /\ tasks' = Retire(tasks, t)

\* C14: the completion of a query that was in flight when dispose() was called
\* writes neither the in-memory cache, nor the shared-store snapshot, nor the UI
C14_StaleResultDiscarded ==
    [][StaleCompleted => (lastStatusData' = lastStatusData /\ store' = store /\ item' = item)]_vars

\* the age of the persisted snapshot
StoreAge == now - store.timestamp

\* before the step, updateFromCache would get past its guard and find a snapshot
PollReads == context /\ item.exists /\ ~isLoading /\ store.has

\* the step leaves the in-memory cache and the UI element as they were
CacheAndUIUnchanged == lastStatusData' = lastStatusData /\ item' = item

\* C15: a cache-poll tick issues no backend query; on an initialized engine with no
\* query in flight it adopts a persisted snapshot of age <= 30 s as the in-memory
\* cache and refreshes the UI from it
C15_CachePollAdopts ==
    [][ev'.op = "updateFromCache"
          => /\ tasks' = tasks /\ isLoading' = isLoading /\ store' = store
             /\ (initialized /\ PollReads /\ StoreAge <= CACHE_ADOPT_MS)
                   => /\ lastStatusData' = store
                      /\ item'.text = getDisplayText(store.data)
                      /\ item'.tooltip = generateTooltip(store.data)
                      /\ item'.warn = shouldHighlightWarning(store.data)]_vars

C15_Witness ==
    /\ ev.op = "updateFromCache" /\ initialized /\ context /\ ~isLoading
    /\ store.has /\ StoreAge = CACHE_ADOPT_MS /\ lastStatusData = store
    /\ item.text = getDisplayText(store.data)

\* C16 (as amended): a persisted snapshot with age 45 s that is read on a cache-poll
\* tick is not adopted: the in-memory cache and the UI are unchanged, no backend
\* query is issued, and a debug note is logged
C16_Age45Ignored ==
    [][(ev'.op = "updateFromCache" /\ PollReads /\ StoreAge = 45000)
          => /\ CacheAndUIUnchanged /\ tasks' = tasks /\ isLoading' = isLoading
             /\ ev'.out.kind = "debug"]_vars

\* C16 (original): a persisted snapshot with age 45 s that is read on a cache-poll
\* tick is adopted into the in-memory cache and the UI is updated from it
C16_Original ==
    [][(ev'.op = "updateFromCache" /\ PollReads /\ StoreAge = 45000)
          => (lastStatusData' = store /\ item'.text = getDisplayText(store.data))]_vars

C16_Witness ==
    /\ ev.op = "updateFromCache" /\ initialized /\ context /\ item.exists /\ ~isLoading
    /\ store.has /\ StoreAge = 45000 /\ lastStatusData.has /\ lastStatusData # store

\* C17: a persisted snapshot older than 60 s that is read on a cache-poll tick is
\* ignored: the in-memory cache and the UI are unchanged, no backend query is
\* issued and nothing is logged
C17_ExpiredIgnored ==
    [][(ev'.op = "updateFromCache" /\ PollReads /\ StoreAge > STALE_LOG_MS)
          => /\ CacheAndUIUnchanged /\ tasks' = tasks /\ isLoading' = isLoading
             /\ ev'.out.kind = "none"]_vars

C17_Witness ==
    /\ ev.op = "updateFromCache" /\ ev.out.kind = "none" /\ initialized /\ context /\ item.exists /\ ~isLoading
    /\ store.has /\ StoreAge = 90000 /\ lastStatusData.has /\ lastStatusData # store

\* C18: when the engine instance of a restarted process loads the snapshot that an
\* engine persisted before the restart (the store still holds it), its in-memory
\* cache has the data and the timestamp that were written
C18_RoundTrip ==
    [][(ev'.op = "updateFromCache" /\ restored.has /\ store = restored
            /\ lastStatusData' # lastStatusData)
          => /\ lastStatusData'.has
             /\ lastStatusData'.data = restored.data
             /\ lastStatusData'.timestamp = restored.timestamp]_vars

C18_Witness ==
    /\ ev.op = "updateFromCache" /\ ev.out.kind = "debug"
    /\ restored.has /\ store = restored /\ lastStatusData = restored
    /\ restored.timestamp < now /\ initialized /\ NumInFlight = 0

BothLeader == \A p \in Procs : leader[p]

\* the last step was the confirmation re-read of a claim, and the read succeeded
Confirmed == ev.op = "leaderConfirm" /\ ev.out.kind # "unknown"

\* C19 (as amended): after a successful confirmation re-read a process considers
\* itself leader exactly if the record carries its ownerId (and has not expired),
\* otherwise it has seen the other's ownerId; two processes consider themselves
\* leader together only if a claim overwrote the lease on which the other had
\* already confirmed
C19_ElectionUnlessLateWrite ==
    /\ BothLeader => late
    /\ Confirmed => /\ leader[ev.out.msg[1]]
                          = (lease.ownerId = ev.out.msg[1] /\ ~LeaseExpired(lease))
                    /\ ev.out.msg[2] = lease.ownerId

\* C19 (original): the two processes never both consider themselves leader
C19_Original == ~BothLeader

C19_Witness ==
    /\ Confirmed /\ ev.out.kind = "follower" /\ ~late
    /\ \E p \in Procs : leader[p] /\ lease.ownerId = p /\ ev.out.msg = <<CHOOSE q \in Procs : q # p, p>>

ElectionStep == ev'.op \in {"leaderRead", "leaderClaim", "leaderConfirm"}

\* C20: a process runs its periodic tasks in a tick only if a successful read of
\* that tick showed a non-expired lease with its own ownerId; a follower and a
\* process whose read or write failed run none
C20_TasksOnlyWhenConfirmed ==
    [][ElectionStep
          => /\ ev'.issued
                   => /\ ev'.out.kind = "leader"
                      /\ lease.has /\ lease.ownerId = ev'.out.msg[1]
                      /\ lease.expiresAt >= now
                      /\ leader'[ev'.out.msg[1]]
             /\ ev'.out.kind \in {"follower", "unknown", "claiming", "claimed"}
                   => (~ev'.issued /\ ~leader'[ev'.out.msg[1]])]_vars

C20_Witness ==
    /\ ev.op = "leaderRead" /\ ev.issued /\ ev.out.kind = "leader"
    /\ lease.ownerId = ev.out.msg[1] /\ lease.expiresAt = now + LEASE_MS
    /\ lease.acquiredAt < now /\ leader[ev.out.msg[1]]

Survivor(q) == lpc[q] # "stopped"

\* the stopped leader's lease has not reached its expiresAt
HeldValid == heldLease.has /\ now <= heldLease.expiresAt

StopKeepsLease == [][ev'.op = "leaderStop" => lease' = lease]_vars

\* a tick that reads another owner's non-expired lease starts no claim
NoClaimOnValidLease ==
    [][(ev'.op = "leaderRead" /\ ev'.out.kind # "unknown"
          /\ lease.has /\ lease.expiresAt >= now /\ lease.ownerId # ev'.out.msg[1])
         => /\ ev'.out.kind = "follower"
            /\ ~leader'[ev'.out.msg[1]]
            /\ lpc'[ev'.out.msg[1]] = "idle"]_vars

\* nobody becomes leader while the stopped leader's record is the one in the store
NoLeaderOnHeldRecord ==
    [][\A q \in Procs : (HeldValid /\ lease = heldLease /\ ~leader[q]) => ~leader'[q]]_vars

Takeover ==
    ((\E p \in Procs : ~Survivor(p)) /\ (~lease.has \/ lease.expiresAt < now))
        ~> (\E q \in Procs : Survivor(q) /\ leader[q])

AutoFailedVisible == Failed /\ ~ev.manual /\ initialized /\ item.exists /\ item.visible

ShowsFetched == Succeeded /\ item.text = getDisplayText(ev.out.data)

\* C22: after a failed automatic refresh of an Active, visible engine the leader's
\* periodic task eventually issues a query and the UI eventually shows the fetched
\* data, with or without cached data
C22_TickRepairs == AutoFailedVisible ~> ShowsFetched

\* the same for an engine that holds cached data
RepairWithCache == (AutoFailedVisible /\ lastStatusData.has) ~> ShowsFetched

\* the handler table as every caller observes it: after ensureInitialized
Handlers(r) == ensureInitialized(r).queryHandlers

\* C23: queryBalance(p) for a provider id without a registered handler returns
\* {balance: 0, currency: 'CNY'}, does not fail and invokes no handler
C23_UnregisteredDefault ==
    [][\A p \in CalledProviders :
          (ev'.op = "queryBalance" /\ ev'.out.msg[1] = p /\ ~hasHandler(balanceQueryManager, p))
            => /\ ev'.out = BalanceOut(p, DefaultBalance)
               /\ ~ev'.issued
               /\ balanceQueryManager'.pending = balanceQueryManager.pending]_vars

C23_Witness ==
    /\ ev.op = "queryBalance" /\ ev.out = BalanceOut("deepseek", DefaultBalance)
    /\ balanceQueryManager.pending # EmptyBag
    /\ balanceQueryManager.queryHandlers["acme"] = "custom"

RegistryUse == ev'.op \in {"queryBalance", "hasHandler", "getRegisteredProviders"}

\* C24: the default handlers are registered at the first use of the registry, not
\* before and never again; a default handler unregistered after the first use stays
\* unregistered across later queryBalance, hasHandler and getRegisteredProviders calls
C24_DefaultsOnce ==
    [][/\ ~balanceQueryManager.initialized
            => /\ balanceQueryManager.defaultRegs = 0
               /\ \A p \in ProviderIds : balanceQueryManager.queryHandlers[p] # "default"
       /\ balanceQueryManager'.defaultRegs <= 1
       /\ balanceQueryManager'.defaultRegs # balanceQueryManager.defaultRegs
            => /\ RegistryUse /\ ~balanceQueryManager.initialized
               /\ \A p \in DefaultProviders : balanceQueryManager'.queryHandlers[p] = "default"
       /\ RegistryUse
            => /\ balanceQueryManager'.initialized /\ balanceQueryManager'.defaultRegs = 1
               /\ \A p \in ProviderIds :
                     (balanceQueryManager.initialized /\ balanceQueryManager.queryHandlers[p] = "none")
                        => balanceQueryManager'.queryHandlers[p] = "none"]_vars

C24_Witness ==
    /\ ev.op = "hasHandler" /\ ev.out.kind = "false" /\ ev.out.msg[1] = "openrouter"
    /\ balanceQueryManager.initialized /\ balanceQueryManager.defaultRegs = 1
    /\ balanceQueryManager.queryHandlers["openrouter"] = "none"

\* C25: queryBalance(p) for a registered p invokes the handler of p exactly once, also
\* when an earlier call has returned a result; the handler's result or failure is what
\* the caller gets, with no second try; and no query changes the registered handlers
C25_StatelessDispatch ==
    [][/\ \A p \in CalledProviders :
            (ev'.op = "queryBalance" /\ ev'.out.msg[1] = p /\ hasHandler(balanceQueryManager, p))
              => /\ ev'.issued
                 /\ balanceQueryManager'.pending
                       = Spawn(balanceQueryManager.pending,
                               HandlerCall(p, Handlers(balanceQueryManager)[p]))
       /\ ev'.op = "queryBalanceSettle"
            => \E c \in BagToSet(balanceQueryManager.pending) :
                  /\ c.calls = 1 /\ c.p = ev'.out.msg[1]
                  /\ balanceQueryManager'.pending = Retire(balanceQueryManager.pending, c)
                  /\ ev'.out.kind \in {"ok", "throw"}
       /\ ev'.op \in {"queryBalance", "queryBalanceSettle"}
            => /\ Handlers(balanceQueryManager') = Handlers(balanceQueryManager)
               /\ getRegisteredProviders(balanceQueryManager')
                     = getRegisteredProviders(balanceQueryManager)]_vars

C25_Witness ==
    /\ ev.op = "queryBalanceSettle" /\ ev.out.kind = "throw" /\ ev.out.msg[1] = "deepseek"
    /\ balanceQueryManager.pending = SetToBag({HandlerCall("deepseek", "default")})

PhaseOf(k) == statusBarManager.statusBars[k].phase

\* C26: initializeAll calls initialize on every registered engine; a rejected
\* initialize is caught, leaves the other engines and the batch as they are, and
\* initializeAll resolves with every engine initialized or recorded as failed
C26_InitializeAllIsolatesFailures ==
    [][/\ (ev'.op = "initializeAll" /\ ev'.out.kind = "awaiting")
            => /\ KeySet \subseteq Registered(statusBarManager')
               /\ statusBarManager'.pending = Registered(statusBarManager')
               /\ \A k \in Registered(statusBarManager') :
                     statusBarManager'.statusBars[k].phase = "initializing"
       /\ ev'.op = "barInitialize"
            => /\ statusBarManager'.pending = statusBarManager.pending \ {ev'.out.msg}
               /\ statusBarManager'.awaiting = statusBarManager.awaiting
               /\ \A k \in KeySet \ {ev'.out.msg} :
                     statusBarManager'.statusBars[k] = statusBarManager.statusBars[k]
               /\ PhaseOf(ev'.out.msg) = "initializing"
                     => statusBarManager'.statusBars[ev'.out.msg].phase
                          = (IF ev'.out.kind = "ok" THEN "active" ELSE "failed")
       /\ ev'.op = "initializeAllResume"
            => /\ ev'.out.kind = "resolved"
               /\ statusBarManager'.initialized
               /\ statusBarManager'.statusBars = statusBarManager.statusBars
               /\ \A k \in Registered(statusBarManager) : PhaseOf(k) \in {"active", "failed"}]_vars

C26_Witness ==
    /\ ev.op = "initializeAllResume" /\ statusBarManager.initialized
    /\ PhaseOf("kimi") = "failed" /\ PhaseOf("compatible") = "failed"
    /\ PhaseOf("minimax") = "active" /\ PhaseOf("moonshot") = "active"

C28_DisposeAllSafe ==
    [][ev'.op = "disposeAll"
         => /\ ev'.out.kind = "returned"
            /\ ev'.out.msg[1] = Registered(statusBarManager)
            /\ Registered(statusBarManager') = {}
            /\ ~statusBarManager'.initialized
            /\ ~statusBarManager'.awaiting
                  => initializeAll(statusBarManager', [k \in KeySet |-> ValidConfig(k)]).kind
                       = "awaiting"]_vars

C28_Witness ==
    /\ ev.op = "disposeAll" /\ ev.out.kind = "returned"
    /\ ev.out.msg = <<{"minimax", "kimi"}, {"kimi"}>>
    /\ Registered(statusBarManager) = {}

ManagerFanOut == ev'.op \in {"managerCheckAndShowStatus", "managerDelayedUpdate"}

\* C29: checkAndShowStatus(id) and delayedUpdate(id) of the manager with an id that
\* is not registered log a warning and change nothing: no timer, no query, no engine
\* state
C29_MissingIdNoEffect ==
    [][\A k \in CalledKeys :
          (ManagerFanOut /\ ev'.out.msg = k /\ PhaseOf(k) = "absent")
            => /\ ev'.out.kind = "warn"
               /\ statusBarManager' = statusBarManager
               /\ Frame]_vars

C29_Witness ==
    /\ ev.op = "managerDelayedUpdate" /\ ev.out.msg = "deepseek" /\ ev.out.kind = "warn"
    /\ PhaseOf("moonshot") = "active" /\ ~statusBarManager.statusBars["moonshot"].scheduled

\* C30: checkAndShowStatus on an engine with a UI element evaluates the visibility
\* predicate; on an initialized engine a true predicate shows the element and starts
\* performInitialUpdate, a false one hides the element and issues no query; without
\* a UI element the call does nothing
C30_CheckAndShowStatus ==
    [][/\ ev'.op = "checkAndShowStatus"
            => /\ FieldsUnchanged
               /\ tasks' = (IF item.exists THEN Spawn(tasks, Task("cas", FALSE, FALSE, 0))
                            ELSE tasks)
       /\ (ev'.op = "checkAndShowStatusResume" /\ initialized /\ item.exists)
            => /\ NumPc(tasks', "cas") = NumPc(tasks, "cas") - 1
               /\ NumInFlightOf(tasks') = NumInFlightOf(tasks)
               /\ ev'.out.kind = "yes"
                     => /\ item'.visible
                        /\ NumPc(tasks', "piu") = NumPc(tasks, "piu") + 1
               /\ ev'.out.kind = "no"
                     => /\ ~item'.visible
                        /\ NumPc(tasks', "piu") = NumPc(tasks, "piu")]_vars

C30_Witness ==
    /\ ev.op = "checkAndShowStatusResume" /\ ev.out.kind = "no"
    /\ initialized /\ item.exists /\ ~item.visible
    /\ lastStatusData.has /\ item.text = getDisplayText(lastStatusData.data)

Active == initialized /\ context /\ item.exists

RefreshDue == lastStatusData.has /\ now - lastStatusData.timestamp > REFRESH_INTERVAL

\* C31: the periodic task calls executeApiQuery(false) exactly when the engine is
\* Active and holds cached data older than 290 s (a call made while a query is in
\* flight returns at once); otherwise the task issues no query and changes nothing
C31_PeriodicTask ==
    [][ev'.op = "leaderTask"
         => /\ UNCHANGED <<initialized, context, item, lastStatusData, store,
                           lastDelayedUpdateTime, updateDebouncer, timeouts,
                           cacheUpdateTimer, intervals, command, leaderTasks>>
            /\ IF Active /\ RefreshDue /\ ~isLoading
               THEN /\ ev'.issued /\ isLoading'
                    /\ tasks' = Spawn(tasks, Task("query", FALSE, FALSE, now))
               ELSE /\ ~ev'.issued /\ UNCHANGED <<isLoading, tasks>>]_vars

C31_Witness ==
    /\ ev.op = "leaderTask" /\ ev.issued /\ isLoading
    /\ Active /\ now - lastStatusData.timestamp = LongDelta

\* C32: the timer a delayedUpdate(delayMs) call schedules is due no earlier than
\* delayMs after the call: max(delayMs, 30 s - time since the last delayed update)
C32_DelayOnlyStretched ==
    [][ev'.op = "delayedUpdate"
         => /\ updateDebouncer'.st = "live"
            /\ updateDebouncer'.due >= now + DEFAULT_DELAY_MS
            /\ LET elapsed == now - lastDelayedUpdateTime
                   floor   == MIN_DELAYED_UPDATE_INTERVAL - elapsed
               IN  updateDebouncer'.due
                     = now + (IF floor > DEFAULT_DELAY_MS THEN floor ELSE DEFAULT_DELAY_MS)]_vars

\* C33: an engine has at most one pending debounce timer at any time, and the
\* handle this.updateDebouncer names every pending timer
C33_OnePendingTimer ==
    /\ NumTimers <= 1
    /\ \A due \in BagToSet(timeouts) : updateDebouncer = LiveHandle(due)

\* C34: registerHandler(p, h) takes effect whenever it is called: h is the handler of
\* p until the next registerHandler or unregisterHandler for p, and every
\* queryBalance(p) in between dispatches to h, also when the registration was made
\* before the first use of the registry
C34_RegisterTakesEffect ==
    [][\A p \in CalledProviders :
          /\ (ev'.op = "registerHandler" /\ ev'.out.msg[1] = p)
                => balanceQueryManager'.queryHandlers[p] = "custom"
          /\ (/\ balanceQueryManager.queryHandlers[p] = "custom"
              /\ ~(ev'.op \in {"registerHandler", "unregisterHandler"} /\ ev'.out.msg[1] = p))
                => balanceQueryManager'.queryHandlers[p] = "custom"
          /\ (/\ balanceQueryManager.queryHandlers[p] = "custom"
              /\ ev'.op = "queryBalance" /\ ev'.out.msg[1] = p)
                => /\ ev'.issued
                   /\ balanceQueryManager'.pending
                         = Spawn(balanceQueryManager.pending, HandlerCall(p, "custom"))]_vars

\* the same for registrations made after the first use of the registry
RegisterAfterFirstUse ==
    [][\A p \in CalledProviders :
          (/\ balanceQueryManager.initialized
           /\ balanceQueryManager.queryHandlers[p] = "custom"
           /\ ev'.op = "queryBalance" /\ ev'.out.msg[1] = p)
             => /\ balanceQueryManager'.queryHandlers[p] = "custom"
                /\ balanceQueryManager'.pending
                      = Spawn(balanceQueryManager.pending, HandlerCall(p, "custom"))]_vars

\* C35: after unregisterHandler(p), until the next registerHandler for p, hasHandler(p)
\* is false, getRegisteredProviders() lacks p and queryBalance(p) returns the default
\* without invoking a handler, also when unregisterHandler is the first operation
C35_UnregisterTakesEffect ==
    [][\A p \in CalledProviders :
          /\ (ev'.op = "unregisterHandler" /\ ev'.out.msg[1] = p)
                => /\ ~hasHandler(balanceQueryManager', p)
                   /\ p \notin getRegisteredProviders(balanceQueryManager')
                   /\ queryBalance(balanceQueryManager', p).pending
                         = balanceQueryManager'.pending
          /\ (/\ ~hasHandler(balanceQueryManager, p)
              /\ ~(ev'.op = "registerHandler" /\ ev'.out.msg[1] = p))
                => /\ ~hasHandler(balanceQueryManager', p)
                   /\ (ev'.op = "hasHandler" /\ ev'.out.msg[1] = p)
                         => ev'.out.kind = "false"
                   /\ ev'.op = "getRegisteredProviders" => p \notin ev'.out.msg
                   /\ (ev'.op = "queryBalance" /\ ev'.out.msg[1] = p)
                         => ev'.out = BalanceOut(p, DefaultBalance) /\ ~ev'.issued]_vars

\* the same for an unregisterHandler that follows the first use of the registry
UnregisterAfterFirstUse ==
    [][\A p \in CalledProviders :
          (balanceQueryManager.initialized /\ ev'.op = "unregisterHandler" /\ ev'.out.msg[1] = p)
             => /\ ~hasHandler(balanceQueryManager', p)
                /\ p \notin getRegisteredProviders(balanceQueryManager')]_vars

\* performRefresh has passed the visibility predicate and calls executeApiQuery(true)
ManualAttempt == ev'.op = "performRefresh" /\ ev'.out.kind = "yes"

\* C36: a manual refresh of a visible engine with no query in flight issues a backend
\* query whatever the age of the cached data; a manual refresh requested while a
\* query is in flight is dropped: it issues nothing and leaves nothing queued
C36_ManualNotShortCircuited ==
    [][/\ (ManualAttempt /\ NumInFlight = 0)
            => /\ ev'.issued /\ isLoading'
               /\ \E t \in BagToSet(tasks) :
                     /\ t.pc = "pr"
                     /\ tasks' = Spawn(Retire(tasks, t), Task("query", TRUE, FALSE, now))
       /\ (ManualAttempt /\ NumInFlight > 0)
            => /\ ~ev'.issued
               /\ \E t \in BagToSet(tasks) : t.pc = "pr" /\ tasks' = Retire(tasks, t)
       /\ (ev'.op = "refreshCommand" /\ NumInFlight > 0) => (Frame /\ ~ev'.issued)]_vars

\* the same with the guard in place of the queries in flight
ManualUnderGuard ==
    [][/\ (ManualAttempt /\ ~isLoading)
            => /\ ev'.issued /\ isLoading'
               /\ \E t \in BagToSet(tasks) :
                     /\ t.pc = "pr"
                     /\ tasks' = Spawn(Retire(tasks, t), Task("query", TRUE, FALSE, now))
       /\ (ManualAttempt /\ isLoading)
            => /\ ~ev'.issued
               /\ \E t \in BagToSet(tasks) : t.pc = "pr" /\ tasks' = Retire(tasks, t)
       /\ (ev'.op = "refreshCommand" /\ isLoading) => (Frame /\ ~ev'.issued)]_vars

\* a manual refresh issues its query on data fetched in the same millisecond
ManualOnFreshData ==
    /\ ev.op = "performRefresh" /\ ev.issued /\ ev.manual /\ isLoading
    /\ lastStatusData.has /\ CacheAge = 0 /\ item.exists /\ item.visible

\* the engine is Active after the step
ActiveNext == initialized' /\ context' /\ item'.exists

\* C37: while the engine stays Active the timestamp of its in-memory cache never
\* decreases, over successful queries and cache-poll adoptions alike
C37_TimestampMonotonic ==
    [][(Active /\ ActiveNext /\ lastStatusData.has)
          => /\ lastStatusData'.has
             /\ lastStatusData'.timestamp >= lastStatusData.timestamp]_vars

\* C38: a query that fails (failure result, success without data, exception), manual
\* or automatic, writes neither the in-memory cache nor the persisted snapshot, when
\* it is issued and when it completes; only the UI element may change, and only for
\* a manual refresh
C38_FailureKeepsCache ==
    [][/\ (ev'.op = "completeQuery" /\ ev'.out.kind # "ok")
            => /\ lastStatusData' = lastStatusData /\ store' = store
               /\ ~ev'.manual => item' = item
               /\ initialized' = initialized /\ context' = context
       /\ ev'.issued => (lastStatusData' = lastStatusData /\ store' = store)]_vars

C38_Witness ==
    /\ Failed /\ ev.manual /\ ev.out.kind = "nodata"
    /\ lastStatusData.has /\ store = lastStatusData /\ CacheAge > 0
    /\ item.exists /\ item.text = ErrText

\* the UI element is shown with the text performRefresh puts on it
LoadingVisible == item.exists /\ item.visible /\ item.text.k = "loading"

\* C39: a manual refresh never leaves the UI in the loading state: a visible UI element
\* that shows the 'loading' text eventually shows data or the error state, whatever
\* automatic refreshes run in between and whatever their outcome
C39_LoadingEnds == LoadingVisible ~> ~LoadingVisible

\* C40: an engine that is not Active issues no backend query: no refresh that was
\* awaiting the visibility predicate when dispose() ran, no delayed update and no
\* periodic task of the leader invokes performApiQuery
C40_InactiveIssuesNoQuery == [][~Active => ~ev'.issued]_vars

\* the same for the periodic task of the leader alone
InactiveTickIssuesNoQuery == [][(~Active /\ ev'.op = "leaderTask") => ~ev'.issued]_vars

\* the engine's lifecycle and its refresh paths
Core ==
    \/ Advance
    \/ Initialize
    \/ InitializeResume
    \/ PerformInitialUpdateResume
    \/ RefreshCommand
    \/ PerformRefreshResume
    \/ CompleteQuery
    \/ Dispose

\* ... with every trigger of an automatic refresh except the debounce timer
Next ==
    \/ Core
    \/ CheckAndShowStatus
    \/ CheckAndShowStatusResume
    \/ LeaderTick
    \/ ContextDisposed

\* ... with the snapshot in the shared store read and written by other windows
NextCache ==
    \/ Core
    \/ CachePoll
    \/ OtherProcessWrite

\* the lifecycle and the debounced automatic refresh requested by the providers
NextDebounce ==
    \/ Advance
    \/ Initialize
    \/ InitializeResume
    \/ PerformInitialUpdateResume
    \/ CompleteQuery
    \/ Dispose
    \/ DelayedUpdate
    \/ DebounceFire

\* the cache poll reading snapshots of any age
NextPoll ==
    \/ Advance
    \/ Initialize
    \/ InitializeResume
    \/ PerformInitialUpdateResume
    \/ CompleteQuery
    \/ Dispose
    \/ CachePoll
    \/ OldSnapshotInStore

\* a process restart between the write and the load of a snapshot
NextRestart ==
    \/ Advance
    \/ Initialize
    \/ InitializeResume
    \/ PerformInitialUpdateResume
    \/ CompleteQuery
    \/ CachePoll
    \/ Restart

\* the election among the processes that share the store
NextLeader ==
    \/ Advance
    \/ ElectionRead
    \/ ElectionClaim
    \/ ElectionConfirm

\* the balance query registry and its callers
NextRegistry ==
    \/ RegisterHandler
    \/ UnregisterHandler
    \/ QueryBalance
    \/ QueryBalanceSettle
    \/ HasHandler
    \/ GetRegisteredProviders

SpecRegistry == Init /\ [][NextRegistry]_vars

\* the status bar manager and its callers
NextManager ==
    \/ InitializeAll
    \/ BarInitSettle
    \/ InitializeAllResume
    \/ ManagerCheckAndShowStatus
    \/ ManagerDelayedUpdate
    \/ DisposeAll

SpecManager == Init /\ [][NextManager]_vars

\* the leader's periodic task on an engine that is initialized, refreshed and disposed
NextTick ==
    \/ RefreshIntervalPasses
    \/ Initialize
    \/ InitializeResume
    \/ PerformInitialUpdateResume
    \/ CompleteQuery
    \/ LeaderTick
    \/ Dispose

SpecTick == Init /\ [][NextTick]_vars

\* delayed updates requested at any distance from the last one that fired
NextDelay ==
    \/ Advance
    \/ AlmostIntervalPasses
    \/ Initialize
    \/ InitializeResume
    \/ PerformInitialUpdateResume
    \/ CompleteQuery
    \/ DelayedUpdate
    \/ DebounceFire

SpecDelay == Init /\ [][NextDelay]_vars

\* an engine of the leader process left to its automatic refreshes
NextRepair ==
    \/ RefreshIntervalPasses
    \/ Initialize
    \/ InitializeResume
    \/ PerformInitialUpdateResume
    \/ CompleteQuery
    \/ LeaderTick

\* every coroutine resumes, every query settles, the leader keeps ticking, time
\* keeps passing, and the backend succeeds again and again
FairRepair ==
    /\ WF_vars(InitializeResume)
    /\ WF_vars(PerformInitialUpdateResume)
    /\ WF_vars(CompleteQuery)
    /\ WF_vars(LeaderTick)
    /\ WF_vars(RefreshIntervalPasses)
    /\ SF_vars(CompleteQuery /\ ev'.out.kind = "ok")

SpecRepair == Init /\ [][NextRepair]_vars /\ FairRepair

\* an engine of the leader process whose user runs the refresh command
NextLoading ==
    \/ RefreshIntervalPasses
    \/ RefreshIntervalPassesLate
    \/ Initialize
    \/ InitializeResume
    \/ PerformInitialUpdateResume
    \/ RefreshCommand
    \/ PerformRefreshResume
    \/ CompleteQuery
    \/ LeaderTick

\* every coroutine resumes, every query settles, the leader keeps ticking and time
\* keeps passing
FairLoading ==
    /\ WF_vars(RefreshIntervalPasses)
    /\ WF_vars(RefreshIntervalPassesLate)
    /\ WF_vars(InitializeResume)
    /\ WF_vars(PerformInitialUpdateResume)
    /\ WF_vars(PerformRefreshResume)
    /\ WF_vars(CompleteQuery)
    /\ WF_vars(LeaderTick)

SpecLoading == Init /\ [][NextLoading]_vars /\ FairLoading

\* the election with a process that stops or dies
NextTakeover ==
    \/ Advance
    \/ ElectionRead
    \/ ElectionClaim
    \/ ElectionConfirm
    \/ ElectionStop

\* the tick timer of a running process keeps firing, and a store operation that is
\* retried on every tick succeeds again and again
FairTicks ==
    \A p \in Procs :
        /\ SF_vars(LeaderRead(p, "ok", "ok"))
        /\ SF_vars(LeaderClaim(p, "ok"))
        /\ SF_vars(LeaderConfirm(p, "ok"))

SpecTakeover == Init /\ [][NextTakeover]_vars /\ FairTicks

Spec == Init /\ [][Next]_vars

SpecLeader == Init /\ [][NextLeader]_vars

SpecRestart == Init /\ [][NextRestart]_vars

SpecPoll == Init /\ [][NextPoll]_vars

SpecCache == Init /\ [][NextCache]_vars

SpecDebounce == Init /\ [][NextDebounce]_vars
====
